---- MODULE Spec2Model ----
(***************************************************************************)
(* Model of the climate dashboard (app.py, data_loader.py): the two cached *)
(* loaders and the five figure functions, over a scaled-down calendar.     *)
(*                                                                         *)
(* Floating-point values are modelled as exact rationals plus the IEEE     *)
(* specials NaN, +inf and -inf.  JSON null is the separate value None.     *)
(***************************************************************************)
EXTENDS Integers, Sequences, FiniteSets, TLC

(* ------------------------------ bounds --------------------------------- *)
\* Scaled calendar: a year has NumMonths months of MonthDays days; the first
\* month of a leap year has one day more (the leap day shifts later days).
NumMonths == 2
MonthDays == 1
\* Largest number of year records in a fetched SST table.
MaxSstYears == 2
\* Largest number of rows in a fetched SIE table.
MaxSieRows == 2

(* ------------------------- program constants --------------------------- *)
avg_from_year == 1982
avg_to_year == 2011
SieRangeStart == 2000
SieRangeStop == 2022
SieTitleFrom == 1982
SieTitleTo == 2011

(* ------------------------------ numbers -------------------------------- *)
Num(i) == [k |-> "num", n |-> i, d |-> 1]
NaN == [k |-> "nan", n |-> 0, d |-> 1]
PosInf == [k |-> "inf", n |-> 1, d |-> 1]
NegInf == [k |-> "inf", n |-> -1, d |-> 1]
None == [k |-> "none", n |-> 0, d |-> 1]

Abs(i) == IF i < 0 THEN -i ELSE i

RECURSIVE GCD(_, _)
GCD(a, b) == IF b = 0 THEN a ELSE GCD(b, a % b)

\* The rational n/d (d # 0) in lowest terms with a positive denominator.
Frac(n, d) ==
    LET g == GCD(Abs(n), Abs(d))
        s == IF d < 0 THEN -1 ELSE 1
    IN  [k |-> "num", n |-> (s * n) \div g, d |-> (s * d) \div g]

IsNum(a) == a.k = "num"

\* float subtraction (finite operands or NaN)
FSub(a, b) ==
    IF IsNum(a) /\ IsNum(b) THEN Frac(a.n * b.d - b.n * a.d, a.d * b.d) ELSE NaN

\* float multiplication by an integer
FScale(a, i) ==
    IF IsNum(a) THEN Frac(a.n * i, a.d)
    ELSE IF a.k = "inf" THEN a
    ELSE NaN

\* float division: x/0 is +-inf, 0/0 is NaN
FDiv(a, b) ==
    IF ~(IsNum(a) /\ IsNum(b)) THEN NaN
    ELSE IF b.n = 0 THEN (IF a.n = 0 THEN NaN ELSE IF a.n > 0 THEN PosInf ELSE NegInf)
    ELSE Frac(a.n * b.d, a.d * b.n)

RECURSIVE FSum(_)
FSum(s) ==
    IF s = <<>> THEN Num(0)
    ELSE LET h == Head(s)
             t == FSum(Tail(s))
         IN  Frac(h.n * t.d + t.n * h.d, h.d * t.d)

\* a faulty GroupBy.mean: the missing values are counted as zeros
MeanZeroFill(vals) ==
    LET present == SelectSeq(vals, IsNum)
    IN  FDiv(FSum(present), Num(Len(vals)))

\* pandas GroupBy.mean (skipna): the mean of the present values, NaN if none
MeanSkipNa(vals) ==
    LET present == SelectSeq(vals, IsNum)
    IN  IF present = <<>> THEN NaN ELSE FDiv(FSum(present), Num(Len(present)))

(* ------------------------------ calendar ------------------------------- *)
IsLeap(y) == (y % 4 = 0 /\ y % 100 # 0) \/ y % 400 = 0

MonthLen(y, m) == MonthDays + (IF m = 1 /\ IsLeap(y) THEN 1 ELSE 0)

RECURSIVE DaysBefore(_, _)
DaysBefore(y, m) == IF m = 1 THEN 0 ELSE DaysBefore(y, m - 1) + MonthLen(y, m - 1)

Date(y, m, d) == [y |-> y, m |-> m, d |-> d]

\* Series.dt.dayofyear
DayOfYear(t) == DaysBefore(t.y, t.m) + t.d

\* Series.dt.strftime('%d-%m-%Y')
DateStr(t) == <<t.d, "-", t.m, "-", t.y>>

NextDay(t) ==
    IF t.d < MonthLen(t.y, t.m) THEN Date(t.y, t.m, t.d + 1)
    ELSE IF t.m < NumMonths THEN Date(t.y, t.m + 1, 1)
    ELSE Date(t.y + 1, 1, 1)

\* datetime + to_timedelta(k, unit='D')
RECURSIVE AddDays(_, _)
AddDays(t, k) == IF k = 0 THEN t ELSE AddDays(NextDay(t), k - 1)

\* range(a, b)
PyRange(a, b) == {i \in a..(b - 1) : TRUE}

(* --------------------------- sequence helpers -------------------------- *)
RECURSIVE Unique(_)
\* Series.unique(): distinct values in order of first appearance
Unique(s) ==
    IF s = <<>> THEN <<>>
    ELSE LET r == Unique(SubSeq(s, 1, Len(s) - 1))
             x == s[Len(s)]
         IN  IF \E i \in 1..Len(r) : r[i] = x THEN r ELSE Append(r, x)

RECURSIVE Concat(_)
Concat(ss) == IF ss = <<>> THEN <<>> ELSE Head(ss) \o Concat(Tail(ss))

(* -------------------------- fetched SST table --------------------------- *)
Digits == <<"0", "1", "2", "3", "4", "5", "6", "7", "8", "9">>

IsDigitChar(c) == \E i \in 1..Len(Digits) : Digits[i] = c

DigitVal(c) == (CHOOSE i \in 1..Len(Digits) : Digits[i] = c) - 1

\* str.isdigit()
IsDigit(name) == name # <<>> /\ \A i \in 1..Len(name) : IsDigitChar(name[i])

RECURSIVE ParseInt(_)
\* int(year)
ParseInt(name) ==
    IF name = <<>> THEN 0
    ELSE ParseInt(SubSeq(name, 1, Len(name) - 1)) * 10 + DigitVal(name[Len(name)])

\* pd.to_datetime of a year string: January 1st of that year
ToDatetimeName(name) == Date(ParseInt(name), 1, 1)

\* pd.to_datetime(df[['Year', 'Month', 'Day']])
ToDatetimeYMD(r) == Date(r.Year, r.Month, r.Day)

\* DataFrame.explode('data').reset_index(drop=True)
Explode(df) ==
    Concat([i \in 1..Len(df) |->
              [k \in 1..Len(df[i].data) |-> [name |-> df[i].name, data |-> df[i].data[k]]]])

\* groupby('name').cumcount()
CumCount(rows, i) == Cardinality({j \in 1..(i - 1) : rows[j].name = rows[i].name})

\* df_years['date'] = to_datetime(name) + to_timedelta(cumcount, unit='D')
SstWithDate(rows) ==
    [i \in 1..Len(rows) |->
        [name |-> rows[i].name, data |-> rows[i].data,
         date |-> AddDays(ToDatetimeName(rows[i].name), CumCount(rows, i))]]

\* df_years['data'].replace({None: np.nan})
ReplaceNone(rows) ==
    [i \in 1..Len(rows) |->
        [rows[i] EXCEPT !.data = IF rows[i].data = None THEN NaN ELSE rows[i].data]]

\* The expanded year records of both SST figure functions.
SstYearRows(df) ==
    ReplaceNone(SstWithDate(Explode(SelectSeq(df, LAMBDA r : IsDigit(r.name)))))

(* ------------------------ baseline and anomaly ------------------------- *)
\* An observation of a working frame: the trace key, the date, the
\* day-of-year column and the value column.
Obs(key, date, value) ==
    [year |-> key, date |-> date, doy |-> DayOfYear(date), value |-> value]

SstObs(rows) ==
    [i \in 1..Len(rows) |-> Obs(rows[i].name, rows[i].date, rows[i].data)]

\* frame[frame['date'].dt.year.isin(years)]
InYears(obs, years) == SelectSeq(obs, LAMBDA o : o.date.y \in years)

\* .groupby(date.dt.dayofyear)[value].mean(): one entry per day-of-year that
\* occurs among the rows, the mean of that day's present values
GroupMean(obs) ==
    [d \in {DayOfYear(obs[i].date) : i \in 1..Len(obs)} |->
        MeanSkipNa([j \in 1..Len(SelectSeq(obs, LAMBDA o : DayOfYear(o.date) = d)) |->
                       SelectSeq(obs, LAMBDA o : DayOfYear(o.date) = d)[j].value])]

\* frame.merge(means, on='day_of_year'): an inner join, which keeps the
\* order of the left rows (as pandas documents it) and drops the rows whose
\* key has no entry in means
MergeMean(obs, means) ==
    LET kept == SelectSeq(obs, LAMBDA o : o.doy \in DOMAIN means)
    IN  [i \in 1..Len(kept) |->
            [year |-> kept[i].year, date |-> kept[i].date, doy |-> kept[i].doy,
             value |-> kept[i].value, mean |-> means[kept[i].doy],
             plot |-> NaN]]

\* a faulty subtraction: the mean is taken off a column that already is
\* value - mean
DiffTwice(rows) ==
    [i \in 1..Len(rows) |->
        [rows[i] EXCEPT !.plot = FSub(FSub(rows[i].value, rows[i].mean), rows[i].mean)]]

\* df['data'] - df['mean'] and df['Extent'] - df['mean']
Diff(rows) ==
    [i \in 1..Len(rows) |-> [rows[i] EXCEPT !.plot = FSub(rows[i].value, rows[i].mean)]]

\* (df['Extent'] - df['mean']) / df['mean'] * 100
DiffPerc(rows) ==
    [i \in 1..Len(rows) |->
        [rows[i] EXCEPT !.plot =
            FScale(FDiv(FSub(rows[i].value, rows[i].mean), rows[i].mean), 100)]]

(* ------------------------------- traces -------------------------------- *)
\* One go.Scatter per key of keys, in that order: the points of the rows
\* that carry the key, in row order.
Traces(pts, keys, hot, names) ==
    [i \in 1..Len(keys) |->
        LET mine == SelectSeq(pts, LAMBDA p : p.year = keys[i])
        IN  [name |-> names[i],
             x |-> [j \in 1..Len(mine) |-> mine[j].x],
             y |-> [j \in 1..Len(mine) |-> mine[j].y],
             customdata |-> [j \in 1..Len(mine) |-> mine[j].text],
             hot |-> keys[i] \in hot]]

Keys(pts) == Unique([i \in 1..Len(pts) |-> pts[i].year])

NoTitle == [from |-> 0, to |-> 0]
NoMeans == [d \in {} |-> NaN]

(* --------------------------- SST figure functions ---------------------- *)
\* prepare_sst_figure on the table df at current year now
prepare_sst_figure(df, now) ==
    LET obs == SstObs(SstYearRows(df.rows))
        pts == [i \in 1..Len(obs) |->
                  [year |-> obs[i].year, x |-> DayOfYear(obs[i].date),
                   y |-> obs[i].value, text |-> ""]]
        keys == Keys(pts)
    IN  [fig |-> [kind |-> "sst", series |-> obs, baseline |-> <<>>, means |-> NoMeans,
                  derived |-> <<>>, title |-> NoTitle,
                  traces |-> Traces(pts, keys,
                                    {keys[i] : i \in {j \in 1..Len(keys) : ParseInt(keys[j]) = now}},
                                    keys)],
         df |-> df]

\* sst_anomaly_fig with the baseline years given
SstAnomaly(df, years, now) ==
    LET obs == SstObs(SstYearRows(df.rows))
        baseline == InYears(obs, years)
        means == GroupMean(baseline)
        derived == Diff(MergeMean(obs, means))
        pts == [i \in 1..Len(derived) |->
                  [year |-> derived[i].year, x |-> DayOfYear(derived[i].date),
                   y |-> derived[i].plot, text |-> ""]]
        keys == Keys(pts)
    IN  [fig |-> [kind |-> "sst_anomaly", series |-> obs, baseline |-> baseline,
                  means |-> means,
                  derived |-> derived,
                  title |-> [from |-> avg_from_year, to |-> avg_to_year],
                  traces |-> Traces(pts, keys,
                                    {keys[i] : i \in {j \in 1..Len(keys) : ParseInt(keys[j]) = now}},
                                    keys)],
         df |-> df]

\* a faulty sst_anomaly_fig: the baseline ends with the current year
sst_anomaly_fig_to_now(df, now) == SstAnomaly(df, PyRange(avg_from_year, now), now)

\* sst_anomaly_fig on the table df at current year now
sst_anomaly_fig(df, now) == SstAnomaly(df, PyRange(avg_from_year, avg_to_year), now)

(* --------------------------- SIE figure functions ---------------------- *)
RECURSIVE Str(_)
\* str(year) of a non-negative integer
Str(n) == IF n < 10 THEN <<Digits[n + 1]>> ELSE Append(Str(n \div 10), Digits[(n % 10) + 1])

SieObs(rows) ==
    [i \in 1..Len(rows) |-> Obs(rows[i].Year, ToDatetimeYMD(rows[i]), rows[i].Extent)]

Perms(n) == {p \in [1..n -> 1..n] : \A i, j \in 1..n : p[i] = p[j] => i = j}

\* DataFrame.sort_values(key) with the default, unstable sort: every
\* arrangement of the rows in which the key column (key[i] is the key of
\* rows[i]) never decreases
SortValues(rows, key) ==
    {[i \in 1..Len(rows) |-> rows[p[i]]] :
        p \in {q \in Perms(Len(rows)) :
                 \A i, j \in 1..Len(rows) : i < j => key[q[i]] <= key[q[j]]}}

\* df.sort_values('Year') and then df.sort_values('day_of_year')
SortYearThenDay(rows) ==
    UNION {SortValues(s, [i \in 1..Len(s) |-> s[i].doy]) :
             s \in SortValues(rows, [i \in 1..Len(rows) |-> rows[i].year])}

SiePoints(rows, ys) ==
    [i \in 1..Len(rows) |->
        [year |-> rows[i].year, x |-> rows[i].doy, y |-> ys[i],
         text |-> DateStr(rows[i].date)]]

AddCols(df, names) == [df EXCEPT !.cols = df.cols \cup names]

\* prepare_sie_figure on the table df_ice at current year now
prepare_sie_figure(df_ice, now) ==
    LET obs == SieObs(df_ice.rows)
        pts == SiePoints(obs, [i \in 1..Len(obs) |-> obs[i].value])
        keys == Keys(pts)
    IN  {[fig |-> [kind |-> "sie", series |-> obs, baseline |-> <<>>, means |-> NoMeans,
                   derived |-> <<>>, title |-> NoTitle,
                   traces |-> Traces(pts, keys, {now},
                                     [i \in 1..Len(keys) |-> Str(keys[i])])],
          df |-> AddCols(df_ice, {"Date", "Date_str", "Day_of_Year"})]}

\* the traces of the two SIE anomaly figures: one per year of the sorted
\* frame, in the order in which the years first occur in it
SieAnomalyTraces(sorted, now) ==
    LET pts == SiePoints(sorted, [i \in 1..Len(sorted) |-> sorted[i].plot])
        keys == Keys(pts)
    IN  Traces(pts, keys, {now}, [i \in 1..Len(keys) |-> Str(keys[i])])

\* sie_anomaly_fig on the table df at current year now
sie_anomaly_fig(df, now) ==
    LET obs == SieObs(df.rows)
        baseline == InYears(obs, PyRange(SieRangeStart, SieRangeStop))
        means == GroupMean(baseline)
    IN  {[fig |-> [kind |-> "sie_anomaly", series |-> obs, baseline |-> baseline,
                   means |-> means,
                   derived |-> sorted,
                   title |-> [from |-> SieTitleFrom, to |-> SieTitleTo],
                   traces |-> SieAnomalyTraces(sorted, now)],
          df |-> AddCols(df, {"date", "date_str", "day_of_year"})] :
            sorted \in SortYearThenDay(Diff(MergeMean(obs, means)))}

\* sie_anomaly_perc_fig on the table df at current year now; the columns
\* are added to the frame that df.drop(columns=...) returned, not to df
sie_anomaly_perc_fig(df, now) ==
    LET obs == SieObs(df.rows)
        baseline == InYears(obs, PyRange(SieRangeStart, SieRangeStop))
        means == GroupMean(baseline)
    IN  {[fig |-> [kind |-> "sie_anomaly_perc", series |-> obs,
                   baseline |-> baseline, means |-> means, derived |-> sorted,
                   title |-> [from |-> SieTitleFrom, to |-> SieTitleTo],
                   traces |-> SieAnomalyTraces(sorted, now)],
          df |-> df] :
            sorted \in SortYearThenDay(DiffPerc(MergeMean(obs, means)))}

(* ------------------------------ the loaders ---------------------------- *)
NoEntry == [cols |-> {}, rows |-> <<>>]

\* @st.cache_data: a miss runs the function and stores its result; every
\* call returns a fresh copy of the stored value, never the value itself.
\* entry is the stored value after the call, df what the caller receives,
\* shared whether df is the stored object.
CacheData(entry, feed) ==
    [entry |-> IF entry = NoEntry THEN feed ELSE entry,
     df |-> IF entry = NoEntry THEN feed ELSE entry,
     shared |-> FALSE]

get_north_atlantic_sst_data(entry, feed) == CacheData(entry, feed)

\* a faulty loader: the cache hands out the stored object itself
get_antarctic_sea_ice_extent_data_shared(entry, feed) ==
    [CacheData(entry, feed) EXCEPT !.shared = TRUE]

get_antarctic_sea_ice_extent_data(entry, feed) == CacheData(entry, feed)

(* ------------------------------- inputs -------------------------------- *)
\* values of datetime.now().year
Nows == {2011, 2021}

YearNames == {Str(2009), Str(2010), Str(2011)}
OtherName == <<"m", "e", "a", "n">>

CommonDays == NumMonths * MonthDays

Fill(len, v, tailNone) ==
    [k \in 1..len |-> IF tailNone /\ k = len THEN None ELSE Num(v)]

\* the measurement of a year (the feeds differ in which days they hold and
\* which values are missing, not in the value of a day)
Measured(y) == (y % 4) + 1

\* daily arrays of a year record: a common-year or a leap-year number of
\* entries, whatever the year; the last entry of the longer one may be null
SstArrays(name) ==
    {Fill(CommonDays, Measured(ParseInt(name)), FALSE),
     Fill(CommonDays + 1, Measured(ParseInt(name)), FALSE),
     Fill(CommonDays + 1, Measured(ParseInt(name)), TRUE)}

SstRecords == UNION {[name : {nm}, data : SstArrays(nm)] : nm \in YearNames}

OtherRecord == [name |-> OtherName, data |-> Fill(CommonDays + 1, 2, FALSE)]

\* the fetched JSON: year records with distinct names in any order, and a
\* record of another category
SstTables ==
    {[cols |-> {"name", "data"}, rows |-> Append(recs, OtherRecord)] :
        recs \in UNION {{q \in [1..n -> SstRecords] :
                            \A i, j \in 1..n : q[i].name = q[j].name => i = j} :
                        n \in 1..MaxSstYears}}

SieDates == {Date(2000, 1, 1), Date(2000, NumMonths, 1), Date(2021, 1, 1), Date(2022, 1, 1)}

SieRows ==
    {[Year |-> t.y, Month |-> t.m, Day |-> t.d, Extent |-> v] :
        t \in SieDates, v \in {NaN} \cup {Num(Measured(y)) : y \in {u.y : u \in SieDates}}}

\* the fetched CSV: rows with distinct dates in any order
SieTables ==
    {[cols |-> {"Year", "Month", "Day", "Extent", "Missing", "Source Data"}, rows |-> rows] :
        rows \in UNION {{q \in [1..n -> SieRows] :
                            /\ \A i, j \in 1..n :
                                  ToDatetimeYMD(q[i]) = ToDatetimeYMD(q[j]) => i = j
                            /\ \A i \in 1..n :
                                  q[i].Extent \in {NaN, Num(Measured(q[i].Year))}} :
                        n \in 1..MaxSieRows}}

DefaultSst ==
    [cols |-> {"name", "data"},
     rows |-> <<[name |-> Str(2010), data |-> Fill(CommonDays, Measured(2010), FALSE)], OtherRecord>>]

DefaultSie ==
    [cols |-> {"Year", "Month", "Day", "Extent", "Missing", "Source Data"},
     rows |-> <<[Year |-> 2021, Month |-> 1, Day |-> 1, Extent |-> Num(Measured(2021))]>>]

(* ---------------------------- state machine ---------------------------- *)
VARIABLES
    feed,           \* what the two remote feeds serve: [sst, sie]
    cache,          \* the st.cache_data entries of the two loaders: [sst, sie]
    local,          \* per running session: the figure function it is in, and its table
    fig,            \* the figure built last
    derivedBefore   \* an anomaly figure had been built before fig was

vars == <<feed, cache, local, fig, derivedBefore>>

SstKinds == {"sst", "sst_anomaly"}
SieKinds == {"sie", "sie_anomaly", "sie_anomaly_perc"}
AnomalyKinds == {"sst_anomaly", "sie_anomaly", "sie_anomaly_perc"}

Family(kind) == IF kind \in SstKinds THEN "sst" ELSE "sie"

Idle == [pc |-> "idle", df |-> NoEntry, shared |-> FALSE]

NoFig ==
    [kind |-> "none", series |-> <<>>, baseline |-> <<>>, means |-> NoMeans, derived |-> <<>>,
     title |-> NoTitle, traces |-> <<>>]

Start(sessions) ==
    /\ cache = [sst |-> NoEntry, sie |-> NoEntry]
    /\ local = [s \in sessions |-> Idle]
    /\ fig = NoFig
    /\ derivedBefore = FALSE

\* one dashboard session, every feed of the input sets
Init ==
    /\ \/ feed \in [sst : SstTables, sie : {DefaultSie}]
       \/ feed \in [sst : {DefaultSst}, sie : SieTables]
    /\ Start({"s1"})

\* two dashboard sessions running at once, on the feeds of one complete
\* year record and one present row
InitConcurrent ==
    /\ feed \in [sst : {t \in SstTables :
                          /\ Len(t.rows) = Len(DefaultSst.rows)
                          /\ Len(t.rows[1].data) = CommonDays},
                  sie : {t \in SieTables :
                          /\ Len(t.rows) = Len(DefaultSie.rows)
                          /\ IsNum(t.rows[1].Extent)}]
    /\ Start({"s1", "s2"})

\* the call of the loader that opens every figure function
Loader(kind, entry, table) ==
    IF kind \in SstKinds THEN get_north_atlantic_sst_data(entry, table)
    ELSE get_antarctic_sea_ice_extent_data(entry, table)

\* the rest of the figure function: the possible results on table df
Body(kind, df, now) ==
    CASE kind = "sst" -> {prepare_sst_figure(df, now)}
      [] kind = "sst_anomaly" -> {sst_anomaly_fig(df, now)}
      [] kind = "sie" -> prepare_sie_figure(df, now)
      [] kind = "sie_anomaly" -> sie_anomaly_fig(df, now)
      [] kind = "sie_anomaly_perc" -> sie_anomaly_perc_fig(df, now)

Call(s, kind) ==
    /\ local[s].pc = "idle"
    /\ LET h == Loader(kind, cache[Family(kind)], feed[Family(kind)])
       IN  /\ cache' = [cache EXCEPT ![Family(kind)] = h.entry]
           /\ local' = [local EXCEPT ![s] = [pc |-> kind, df |-> h.df, shared |-> h.shared]]
    /\ UNCHANGED <<feed, fig, derivedBefore>>

Finish(s, kind) ==
    /\ local[s].pc = kind
    /\ \E now \in Nows :
         \E r \in Body(kind, local[s].df, now) :
            /\ fig' = r.fig
            /\ cache' = IF local[s].shared
                        THEN [cache EXCEPT ![Family(kind)] = r.df]
                        ELSE cache
            /\ local' = [t \in DOMAIN local |->
                           IF t = s THEN Idle
                           ELSE IF local[s].shared /\ local[t].shared
                                   /\ local[t].pc # "idle"
                                   /\ Family(local[t].pc) = Family(kind)
                                THEN [local[t] EXCEPT !.df = r.df]
                                ELSE local[t]]
    /\ derivedBefore' = (derivedBefore \/ fig.kind \in AnomalyKinds)
    /\ UNCHANGED feed

PrepareSstFigure(s) == Call(s, "sst") \/ Finish(s, "sst")
SstAnomalyFig(s) == Call(s, "sst_anomaly") \/ Finish(s, "sst_anomaly")
PrepareSieFigure(s) == Call(s, "sie") \/ Finish(s, "sie")
SieAnomalyFig(s) == Call(s, "sie_anomaly") \/ Finish(s, "sie_anomaly")
SieAnomalyPercFig(s) == Call(s, "sie_anomaly_perc") \/ Finish(s, "sie_anomaly_perc")

Next ==
    \/ \E s \in DOMAIN local : PrepareSstFigure(s)
    \/ \E s \in DOMAIN local : SstAnomalyFig(s)
    \/ \E s \in DOMAIN local : PrepareSieFigure(s)
    \/ \E s \in DOMAIN local : SieAnomalyFig(s)
    \/ \E s \in DOMAIN local : SieAnomalyPercFig(s)

Spec == Init /\ [][Next]_vars

SpecConcurrent == InitConcurrent /\ [][Next]_vars

(* ----------------------- vocabulary of the claims ---------------------- *)
RECURSIVE SumN(_)
\* the sum of the numerators of a set of observations with integral values
SumN(S) ==
    IF S = {} THEN 0
    ELSE LET o == CHOOSE x \in S : TRUE IN o.value.n + SumN(S \ {o})

\* the name of the trace of a key: the SST keys are the names, str(Year) is
\* the name of a SIE year
TraceName(key) == IF fig.kind \in SstKinds THEN key ELSE Str(key)

\* the present values that entered the baseline of fig on day-of-year d
BaselinePresent(d) ==
    {[at |-> j, value |-> fig.baseline[j].value] :
        j \in {i \in 1..Len(fig.baseline) :
                 DayOfYear(fig.baseline[i].date) = d /\ IsNum(fig.baseline[i].value)}}

\* y is v - S/n
IsDiff(y, v, S, n) == IsNum(y) /\ y.n * n = (v * n - S) * y.d

\* y is (v - S/n) / (S/n) * 100
IsDiffPerc(y, v, S, n) ==
    IF S = 0 THEN ~IsNum(y) ELSE IsNum(y) /\ y.n * S = (v * n - S) * 100 * y.d

\* the values plotted at day-of-year x on the trace of key
Plotted(key, x) ==
    UNION {{fig.traces[i].y[j] : j \in {k \in 1..Len(fig.traces[i].x) : fig.traces[i].x[k] = x}} :
             i \in {t \in 1..Len(fig.traces) : fig.traces[t].name = TraceName(key)}}

InBaseline(i) == \E j \in 1..Len(fig.baseline) : fig.baseline[j] = fig.series[i]

\* C2 - The baseline of sst_anomaly_fig is computed over exactly the records
\* whose date.year lies in the closed interval [avg_from_year, avg_to_year]:
\* the records of the start year and of the end year enter it, and those of
\* no year outside the interval do.
C2_BaselineIsClosedInterval ==
    fig.kind = "sst_anomaly" =>
        \A i \in 1..Len(fig.series) :
            InBaseline(i) <=> fig.series[i].date.y \in avg_from_year..avg_to_year

\* the baseline years the code of the figure selects
CodeYears ==
    IF fig.kind \in SstKinds THEN avg_from_year..(avg_to_year - 1)
    ELSE SieRangeStart..(SieRangeStop - 1)

\* day-of-year d has a present value in the series of fig in a year that
\* the code selects or that the title of fig names as a baseline year
HasBaselineValue(d) ==
    \E i \in 1..Len(fig.series) :
        /\ DayOfYear(fig.series[i].date) = d
        /\ IsNum(fig.series[i].value)
        /\ fig.series[i].date.y \in CodeYears \cup fig.title.from..fig.title.to

\* C3 - In an anomaly figure, every record of the series whose day-of-year
\* has no present value in the baseline range (the days without any record
\* in the range included) is still a record of the derived series, and its
\* anomaly is absent (the baseline range read as widely as the code and the
\* title of the figure allow, so that it does not rest on C2 or C10).
C3_AbsentBaselineKeepsRecord ==
    fig.kind \in AnomalyKinds =>
        \A i \in 1..Len(fig.series) :
            ~HasBaselineValue(DayOfYear(fig.series[i].date)) =>
                \E j \in 1..Len(fig.derived) :
                    /\ fig.derived[j].year = fig.series[i].year
                    /\ fig.derived[j].date = fig.series[i].date
                    /\ fig.derived[j].plot = NaN

\* the observations of the feed of the family of fig, as fetched: key, date
\* and value of every daily entry (SST) or row (SIE)
FeedObs ==
    IF fig.kind \in SstKinds
    THEN UNION {{[year |-> feed.sst.rows[i].name,
                  date |-> AddDays(Date(ParseInt(feed.sst.rows[i].name), 1, 1), k - 1),
                  value |-> IF IsNum(feed.sst.rows[i].data[k])
                            THEN feed.sst.rows[i].data[k] ELSE NaN] :
                   k \in 1..Len(feed.sst.rows[i].data)} :
                i \in {r \in 1..Len(feed.sst.rows) : IsDigit(feed.sst.rows[r].name)}}
    ELSE {[year |-> feed.sie.rows[i].Year,
           date |-> Date(feed.sie.rows[i].Year, feed.sie.rows[i].Month, feed.sie.rows[i].Day),
           value |-> feed.sie.rows[i].Extent] : i \in 1..Len(feed.sie.rows)}

\* the present values of the feed on day-of-year d of the baseline years
FeedPresent(d) ==
    {o \in FeedObs : o.date.y \in CodeYears /\ DayOfYear(o.date) = d /\ IsNum(o.value)}

C5_ExpandedDatesUnique ==
    fig.kind \in SstKinds =>
        /\ \A i, j \in 1..Len(fig.series) :
              fig.series[i].date = fig.series[j].date => i = j
        /\ \A i \in 1..Len(fig.series) :
              fig.series[i].date.y = ParseInt(fig.series[i].year)

\* every record of the series of fig is dated in the year of its trace
DatedInOwnYear ==
    \A i \in 1..Len(fig.series) :
        fig.series[i].date.y =
            (IF fig.kind \in SstKinds THEN ParseInt(fig.series[i].year) ELSE fig.series[i].year)

\* C6 - The traces of every figure are in ascending year order, and the
\* points of every trace are in ascending day-of-year order (stated for the
\* tables whose records are all dated in the year of their trace, so that it
\* does not rest on C5).
C6_TracesAscending ==
    DatedInOwnYear =>
        /\ \A i \in 1..(Len(fig.traces) - 1) :
              ParseInt(fig.traces[i].name) < ParseInt(fig.traces[i + 1].name)
        /\ \A i \in 1..Len(fig.traces) :
              \A j \in 1..(Len(fig.traces[i].x) - 1) :
                  fig.traces[i].x[j] <= fig.traces[i].x[j + 1]

\* the years of the records of the working series
SeriesYears == {fig.series[i].date.y : i \in 1..Len(fig.series)}

\* C7 - Density: the series the baseline and anomaly steps work on holds
\* one record for every date from January 1 of its first year to December 31
\* of its last year, in ascending date order, none repeated or skipped.
C7_SeriesDense ==
    (fig.kind \in AnomalyKinds /\ Len(fig.series) > 0) =>
        LET first == CHOOSE y \in SeriesYears : \A z \in SeriesYears : y <= z
            last == CHOOSE y \in SeriesYears : \A z \in SeriesYears : z <= y
        IN  /\ fig.series[1].date = Date(first, 1, 1)
            /\ fig.series[Len(fig.series)].date = Date(last, NumMonths, MonthLen(last, NumMonths))
            /\ \A i \in 1..(Len(fig.series) - 1) :
                  fig.series[i + 1].date = NextDay(fig.series[i].date)

\* the anomaly of every record of the derived series
Anomalies(f) ==
    {[year |-> f.derived[j].year, date |-> f.derived[j].date, plot |-> f.derived[j].plot] :
        j \in 1..Len(f.derived)}

\* C8 - Two consecutive builds of the same anomaly figure, whatever the
\* current year of each, have the same baseline means and the same
\* anomaly for every record.
C8_CurrentYearIrrelevant ==
    [][(fig.kind \in AnomalyKinds /\ fig'.kind = fig.kind) =>
          (fig'.means = fig.means /\ Anomalies(fig') = Anomalies(fig))]_vars

\* an anomaly figure built after an earlier one, with a highlighted trace
\* (so the current year is a year of the data) and an anomaly that is not zero
C8_Witness ==
    /\ derivedBefore
    /\ fig.kind \in AnomalyKinds
    /\ \E i \in 1..Len(fig.traces) : fig.traces[i].hot
    /\ \E j \in 1..Len(fig.derived) : IsNum(fig.derived[j].plot) /\ fig.derived[j].plot.n # 0

\* C9 - After any interleaving of the figure functions, each cache entry is
\* the table as fetched, and so is the table of every session that is
\* inside a figure function: no added column and no changed value of
\* another run is in it.
C9_RunsIsolated ==
    /\ \A f \in DOMAIN cache : cache[f] = NoEntry \/ cache[f] = feed[f]
    /\ \A s \in DOMAIN local :
          local[s].pc # "idle" => local[s].df = feed[Family(local[s].pc)]

\* a session is inside a SIE figure function, holding its table, while
\* another session has finished a SIE figure function that adds columns
C9_Witness ==
    /\ fig.kind \in {"sie", "sie_anomaly"}
    /\ \E s \in DOMAIN local : local[s].pc \in SieKinds
    /\ \E s \in DOMAIN local : local[s].pc = "idle"

\* C10 - In every anomaly figure, the records that enter the baseline mean
\* are exactly those whose year lies in the year range the axis title names.
C10_TitleNamesBaseline ==
    fig.kind \in AnomalyKinds =>
        \A i \in 1..Len(fig.series) :
            InBaseline(i) <=> fig.series[i].date.y \in fig.title.from..fig.title.to

====
